---- MODULE Spec2Model ----
(***************************************************************************)
(* Model of the post-commit tracker scripts of proyecto-base.               *)
(*                                                                         *)
(* Three variants of the script coexist in the sources:                    *)
(*   variant 1  src/script/commit-tracker.js      (single commit-history)  *)
(*   variant 2  src/unnamed/part_000 lines 1-239   (per-branch + main)      *)
(*   variant 3  src/unnamed/part_000 lines 241-431 (global + per-branch)    *)
(*                                                                         *)
(* Strings the scripts compute with (hashes, branch names, URLs) are      *)
(* sequences of one-character strings, so that the regular expressions     *)
(* and endsWith are computed as the code computes them; a path is the      *)
(* sequence of its literal parts and of the characters of the branch name  *)
(* put between them.  An ISO-8601 committer date is a record [wall, off]:  *)
(* the wall-clock reading and the zone offset it carries; new Date(...)    *)
(* maps it to the instant wall - off.                                      *)
(*                                                                         *)
(* Spec      invocations of any variant, one after the other               *)
(* SpecInfo  one invocation, over a wider range of environment answers     *)
(* SpecRace  two invocations interleaved on one history file               *)
(***************************************************************************)
EXTENDS Integers, Sequences, FiniteSets, TLC

VARIABLES
    files,      \* the history directory: path -> [st, data]
    count,      \* invocations run so far
    last,       \* what the latest invocation did (observation only)
    targeted,   \* per path: successful invocations that wrote it
    clean,      \* the run started from absent or empty history files
    okRuns,     \* invocations that exited 0
    rinit,      \* race model: the content the raced file started with
    rpc,        \* race model: each invocation's position
    rloaded,    \* race model: the array each invocation has read
    rentry,     \* race model: the record each invocation appends
    serialized  \* race model: invocations are run one after the other

vars == <<files, count, last, targeted, clean, okRuns,
          rinit, rpc, rloaded, rentry, serialized>>

raceVars == <<rinit, rpc, rloaded, rentry, serialized>>

-----------------------------------------------------------------------------
(* Characters and strings *)

Digits == {"0","1","2","3","4","5","6","7","8","9"}
LowerAF == {"a","b","c","d","e","f"}
UpperAF == {"A","B","C","D","E","F"}
Lower == {"a","b","c","d","e","f","g","h","i","j","k","l","m",
          "n","o","p","q","r","s","t","u","v","w","x","y","z"}
Upper == {"A","B","C","D","E","F","G","H","I","J","K","L","M",
          "N","O","P","Q","R","S","T","U","V","W","X","Y","Z"}

RECURSIVE Rep(_, _)
Rep(c, n) == IF n = 0 THEN <<>> ELSE <<c>> \o Rep(c, n - 1)

StartsWith(s, p) ==
    /\ Len(s) >= Len(p)
    /\ SubSeq(s, 1, Len(p)) = p

EndsWith(s, p) ==
    /\ Len(s) >= Len(p)
    /\ SubSeq(s, Len(s) - Len(p) + 1, Len(s)) = p

\* First index of character c in s, 0 when there is none.
IndexOf(s, c) ==
    IF \E i \in 1..Len(s) : s[i] = c
    THEN CHOOSE i \in 1..Len(s) : s[i] = c /\ \A j \in 1..(i - 1) : s[j] # c
    ELSE 0

Range(s) == {s[i] : i \in 1..Len(s)}

-----------------------------------------------------------------------------
(* Paths *)

\* The literal parts of a path are kept whole; only the branch name, which the
\* code rewrites character by character, is spelt out.
HISTORY_DIR == <<"script">>

HistoryPrefix == <<"commit-history">>

JsonSuffix == <<".json">>

\* path.join(a, b) for two relative, already normal segments
PathJoin(a, b) == a \o <<"/">> \o b

\* "script/commit-history.json" (variants 1 and 3)
DATA_FILE == HISTORY_DIR \o <<"/">> \o HistoryPrefix \o JsonSuffix

\* path.join(HISTORY_DIR, "commit-history-main.json") (variant 2)
MAIN_FILE == PathJoin(HISTORY_DIR, HistoryPrefix \o <<"-","m","a","i","n">> \o JsonSuffix)

\* [a-zA-Z0-9._-]
SafeBranchChars == Lower \cup Upper \cup Digits \cup {".", "_", "-"}

RECURSIVE ReplaceUnsafe(_)
ReplaceUnsafe(s) ==
    IF s = <<>> THEN <<>>
    ELSE <<IF Head(s) \in SafeBranchChars THEN Head(s) ELSE "_">>
         \o ReplaceUnsafe(Tail(s))

\* (name || "unknown").replace(/[^a-zA-Z0-9._-]/g, "_")
sanitizeBranchName(name) ==
    ReplaceUnsafe(IF name = <<>> THEN <<"u","n","k","n","o","w","n">> ELSE name)

\* variant 2: path.join(HISTORY_DIR, `commit-history-${safeBranch}.json`)
BranchFile2(branch) ==
    PathJoin(HISTORY_DIR,
             HistoryPrefix \o <<"-">> \o sanitizeBranchName(branch) \o JsonSuffix)

\* variant 3: `script/commit-history-${entry.branch}.json`
BranchFile3(branch) ==
    HISTORY_DIR \o <<"/">> \o HistoryPrefix \o <<"-">> \o branch \o JsonSuffix

-----------------------------------------------------------------------------
(* git rev-parse HEAD and the hash check *)

\* /^[0-9a-f]{7,40}$/i
ShaRegexI(sha) ==
    /\ Len(sha) >= 7
    /\ Len(sha) <= 40
    /\ \A i \in 1..Len(sha) : sha[i] \in Digits \cup LowerAF \cup UpperAF

-----------------------------------------------------------------------------
(* getRemoteHttpUrl *)

DotGit == <<".","g","i","t">>

\* raw.replace(/\.git$/, "")
StripDotGit(raw) ==
    IF EndsWith(raw, DotGit) THEN SubSeq(raw, 1, Len(raw) - 4) ELSE raw

\* remote: [throws, out], the outcome of `git config --get remote.origin.url`
getRemoteHttpUrl(remote) ==
    IF remote.throws THEN <<>>
    ELSE LET raw == StripDotGit(remote.out)
             rest == SubSeq(raw, 5, Len(raw))
             colon == IndexOf(rest, ":")
         IN  IF StartsWith(raw, <<"h","t","t","p">>) THEN raw
             \* /^git@([^:]+):(.+)$/
             ELSE IF /\ StartsWith(raw, <<"g","i","t","@">>)
                     /\ colon >= 2
                     /\ colon < Len(rest)
                  THEN <<"h","t","t","p","s",":","/","/">>
                       \o SubSeq(rest, 1, colon - 1) \o <<"/">>
                       \o SubSeq(rest, colon + 1, Len(rest))
             ELSE <<>>

\* repoUrl ? `${repoUrl}/commit/${sha}` : ""
commitUrlOfRef(repoUrl, sha) ==
    IF repoUrl = <<>> THEN <<>>
    ELSE repoUrl \o <<"/","c","o","m","m","i","t","/">> \o <<"H","E","A","D">>

commitUrl(repoUrl, sha) ==
    IF repoUrl = <<>> THEN <<>>
    ELSE repoUrl \o <<"/","c","o","m","m","i","t","/">> \o sha

-----------------------------------------------------------------------------
(* Dates *)

\* new Date(iso).getTime(): the instant an ISO-8601 reading with offset names
ParseDate(d) == d.wall - d.off

-----------------------------------------------------------------------------
(* getCommitInfo: the test-runner part *)

\* let testCount = 0; let coverage = 0; let failedTests = 0; let conclusion = "neutral"
\* coverage is kept in hundredths of a percent (two decimals)
JestDefaultsOptimistic ==
    [test_count |-> 0, coverage |-> 0, failed_tests |-> 0, conclusion |-> "success"]

JestDefaults ==
    [test_count |-> 0, coverage |-> 0, failed_tests |-> 0, conclusion |-> "neutral"]

RECURSIVE SumLen(_)
SumLen(fs) == IF fs = <<>> THEN 0 ELSE Len(Head(fs).s) + SumLen(Tail(fs))

Hits(s) == Cardinality({i \in 1..Len(s) : s[i] > 0})

RECURSIVE SumHits(_)
SumHits(fs) == IF fs = <<>> THEN 0 ELSE Hits(Head(fs).s) + SumHits(Tail(fs))

\* Math.round((covered / total) * 10000) / 100, in hundredths
CoveragePct(covered, total) ==
    IF total > 0 THEN (2 * covered * 10000 + total) \div (2 * total) ELSE 0

\* testCount > 0 ? (failedTests > 0 ? "failure" : "success") : "neutral"
Conclusion(testCount, failedTests) ==
    IF testCount > 0
    THEN (IF failedTests > 0 THEN "failure" ELSE "success")
    ELSE "neutral"

\* t: [manifest, runner, report, numTotalTests, numFailedTests, coverageMap]
\*   manifest     package.json exists
\*   runner       "ok" | "fails": exit of npx jest (swallowed by the inner try)
\*   report       "missing" | "unparseable" | "parsed"
\*   coverageMap  [present, files]; a file is [hasS, s], s its hit counters;
\*                reading file.s of a file without it throws inside the loop
ProcessTests(t) ==
    IF ~t.manifest THEN JestDefaults
    ELSE IF t.report = "missing" THEN JestDefaults
    ELSE IF t.report = "unparseable" THEN JestDefaults
    ELSE LET assigned == [JestDefaults EXCEPT !.test_count = t.numTotalTests,
                                              !.failed_tests = t.numFailedTests]
             cm == t.coverageMap
         IN  IF cm.present /\ \E i \in 1..Len(cm.files) : ~cm.files[i].hasS
             THEN assigned
             ELSE [assigned EXCEPT
                     !.coverage = IF cm.present
                                  THEN CoveragePct(SumHits(cm.files), SumLen(cm.files))
                                  ELSE 0,
                     !.conclusion = Conclusion(t.numTotalTests, t.numFailedTests)]

-----------------------------------------------------------------------------
(* getCommitInfo *)

\* in: the answers of the environment to one invocation
\*   sha     [throws, out]  git rev-parse HEAD
\*   meta    "ok" | "fail"  git log -1 --pretty=... <sha>
\*   date    [wall, off]    %cI of the commit
\*   remote  [throws, out]  git config --get remote.origin.url
\*   branch  [throws, out]  git rev-parse --abbrev-ref HEAD
\*   tests   see ProcessTests
\*   failAt  the writeFileSync call that throws (0: none)
\* The result is <<>> for null, <<entry>> otherwise.
getCommitInfo(sha, in) ==
    IF in.meta = "fail" THEN <<>>
    ELSE LET t == ProcessTests(in.tests)
         IN  << [sha          |-> sha,
                 branch       |-> IF in.branch.throws THEN <<>> ELSE in.branch.out,
                 date         |-> in.date,
                 url          |-> commitUrl(getRemoteHttpUrl(in.remote), sha),
                 coverage     |-> t.coverage,
                 test_count   |-> t.test_count,
                 failed_tests |-> t.failed_tests,
                 conclusion   |-> t.conclusion] >>

-----------------------------------------------------------------------------
(* History files *)

Absent == [st |-> "absent", data |-> <<>>]
Corrupt == [st |-> "corrupt", data |-> <<>>]
Array(commits) == [st |-> "array", data |-> commits]

ExistsSync(fs, p) == fs[p].st # "absent"

\* JSON.parse of the file, [] when it is no array or does not parse
LoadHistory(fs, p) ==
    IF ExistsSync(fs, p)
    THEN (IF fs[p].st = "array" THEN fs[p].data ELSE <<>>)
    ELSE <<>>

\* (a, b) => new Date(a.commit.date) - new Date(b.commit.date)
CompareByWallClock(a, b) == a.date.wall - b.date.wall

CompareCommits(a, b) == ParseDate(a.date) - ParseDate(b.date)

\* The place a stable sort gives e among the sorted commits: after every
\* element that does not compare greater.
InsertSorted(sorted, e) ==
    LET k == Cardinality({i \in 1..Len(sorted) : CompareCommits(sorted[i], e) <= 0})
    IN  SubSeq(sorted, 1, k) \o <<e>> \o SubSeq(sorted, k + 1, Len(sorted))

RECURSIVE SortFrom(_, _)
SortFrom(sorted, rest) ==
    IF rest = <<>> THEN sorted
    ELSE SortFrom(InsertSorted(sorted, Head(rest)), Tail(rest))

\* commits.sort(...): Array.prototype.sort is stable
SortCommits(commits) == SortFrom(<<>>, commits)

\* The state of one run: the files, the writeFileSync calls made, the paths
\* written, and whether a write threw.
StartRun(fs) == [files |-> fs, nw |-> 0, writes |-> <<>>, failed |-> FALSE]

\* A path names a file of the history directory itself when nothing after
\* "script/" holds a separator.  No script creates a directory below it
\* (ensureDir makes HISTORY_DIR only), so any other path has no directory.
DirExists(p) == IndexOf(SubSeq(p, 3, Len(p)), "/") = 0

\* fs.writeFileSync(p, JSON.stringify(commits, null, 2)); it throws when the
\* directory is missing (ENOENT) and on the call numbered failAt (disk full,
\* read-only file), leaving the file as it was.
WriteFileSync(st, p, commits, failAt) ==
    IF st.nw + 1 = failAt \/ ~DirExists(p)
    THEN [st EXCEPT !.nw = @ + 1, !.failed = TRUE]
    ELSE [st EXCEPT !.nw = @ + 1,
                    !.files = [@ EXCEPT ![p] = Array(commits)],
                    !.writes = Append(@, p)]

\* if (!fs.existsSync(p)) fs.writeFileSync(p, "[]")
CreateIfAbsent(st, p, failAt) ==
    IF ExistsSync(st.files, p) THEN st ELSE WriteFileSync(st, p, <<>>, failAt)

\* commits.push(entry); sort; rewrite
PushDropHistory(commits, entry) == SortCommits(<<entry>>)

Push(commits, entry) == SortCommits(Append(commits, entry))

\* appendEntry(filePath, entry): loadHistory, push, saveHistory
appendEntry(st, p, entry, failAt) ==
    WriteFileSync(st, p, Push(LoadHistory(st.files, p), entry), failAt)

\* What a run leaves: the files, the exit code, the entry built (if any),
\* the paths written, whether a write threw.
Result(st, exit, entry) ==
    [files |-> st.files, exit |-> exit, entry |-> entry,
     writes |-> st.writes, wfailed |-> st.failed]

HEADstr == <<"H","E","A","D">>

\* the three anti-HEAD checks of saveCommitData (variant 1) and validateEntry
HardChecks(entry) ==
    /\ entry.sha # HEADstr
    /\ ~(entry.url # <<>> /\ EndsWith(entry.url, <<"/","c","o","m","m","i","t","/">> \o HEADstr))
    /\ ~(entry.url # <<>> /\ ~EndsWith(entry.url, entry.sha))

\* validateEntry (variant 2): the three checks and if (!entry.branch) throw
validateEntry(entry) ==
    /\ HardChecks(entry)
    /\ entry.branch # <<>>

-----------------------------------------------------------------------------
(* Variant 1: src/script/commit-tracker.js *)

saveCommitData1(st, entry, failAt) ==
    IF ~HardChecks(entry) THEN Result(st, 1, <<entry>>)
    ELSE LET st2 == WriteFileSync(st, DATA_FILE,
                                  Push(LoadHistory(st.files, DATA_FILE), entry),
                                  failAt)
         IN  Result(st2, IF st2.failed THEN 1 ELSE 0, <<entry>>)

Main1(fs, in) ==
    LET st1 == CreateIfAbsent(StartRun(fs), DATA_FILE, in.failAt)
        info == getCommitInfo(in.sha.out, in)
    IN  IF st1.failed THEN Result(st1, 1, <<>>)
        ELSE IF in.sha.throws \/ ~ShaRegexI(in.sha.out) THEN Result(st1, 1, <<>>)
        ELSE IF info = <<>> THEN Result(st1, 1, <<>>)
        ELSE saveCommitData1(st1, info[1], in.failAt)

-----------------------------------------------------------------------------
(* Variant 2: src/unnamed/part_000, first script *)

MainStr == <<"m","a","i","n">>

\* if (entry.branch === "main")
AnyBranchIsMain(entry) == TRUE

IsMainBranch(entry) == entry.branch = MainStr

Main2(fs, in) ==
    LET st0 == StartRun(fs)
        info == getCommitInfo(in.sha.out, in)
        entry == info[1]
        BRANCH_FILE == BranchFile2(entry.branch)
        st1 == CreateIfAbsent(st0, BRANCH_FILE, in.failAt)
        st2 == appendEntry(st1, BRANCH_FILE, entry, in.failAt)
        st3 == CreateIfAbsent(st2, MAIN_FILE, in.failAt)
        st4 == appendEntry(st3, MAIN_FILE, entry, in.failAt)
    IN  IF in.sha.throws \/ ~ShaRegexI(in.sha.out) THEN Result(st0, 1, <<>>)
        ELSE IF info = <<>> THEN Result(st0, 1, <<>>)
        ELSE IF ~validateEntry(entry) THEN Result(st0, 1, info)
        ELSE IF st1.failed THEN Result(st1, 1, info)
        ELSE IF st2.failed THEN Result(st2, 1, info)
        ELSE IF ~IsMainBranch(entry) THEN Result(st2, 0, info)
        ELSE IF st3.failed THEN Result(st3, 1, info)
        ELSE Result(st4, IF st4.failed THEN 1 ELSE 0, info)

-----------------------------------------------------------------------------
(* Variant 3: src/unnamed/part_000, second script *)

saveCommitData3(st, entry, failAt) ==
    LET st2 == WriteFileSync(st, DATA_FILE,
                             Push(LoadHistory(st.files, DATA_FILE), entry),
                             failAt)
        branchFile == BranchFile3(entry.branch)
        st3 == WriteFileSync(st2, branchFile,
                             Push(LoadHistory(st2.files, branchFile), entry),
                             failAt)
    IN  IF st2.failed THEN Result(st2, 1, <<entry>>)
        ELSE IF entry.branch # <<>> /\ entry.branch # HEADstr
             THEN Result(st3, IF st3.failed THEN 1 ELSE 0, <<entry>>)
        ELSE Result(st2, 0, <<entry>>)

Main3(fs, in) ==
    LET st1 == CreateIfAbsent(StartRun(fs), DATA_FILE, in.failAt)
        info == getCommitInfo(in.sha.out, in)
    IN  IF st1.failed THEN Result(st1, 1, <<>>)
        ELSE IF in.sha.throws \/ ~ShaRegexI(in.sha.out) THEN Result(st1, 1, <<>>)
        ELSE IF info = <<>> THEN Result(st1, 1, <<>>)
        ELSE saveCommitData3(st1, info[1], in.failAt)

-----------------------------------------------------------------------------
(* The environment's answers *)

MaxInvocations == 2

Threw == [throws |-> TRUE, out |-> <<>>]
Said(s) == [throws |-> FALSE, out |-> s]

\* a full lower-case hash, as git prints it
Sha40 == Rep("a", 33) \o <<"0","1","2","3","4","5","f">>
ShaOther == Rep("b", 33) \o <<"0","1","2","3","4","5","f">>

ShaAnswers ==
    {Threw, Said(Sha40)}

ShaAnswersWide ==
    ShaAnswers \cup
    { Said(HEADstr), Said(Rep("a", 6)), Said(Rep("a", 7)), Said(Rep("a", 41)),
      Said(<<"A","B","C","D","E","F","0">>),
      Said(<<"a","b","c","d","e","f","g">>) }

FeatureBranch == <<"f","e","a","t","u","r","e","/","x","-","1">>
PlusBranch == <<"f","i","x","+","1">>

Branches == {<<>>, MainStr, HEADstr, FeatureBranch, PlusBranch}

BranchAnswers == {Said(<<>>), Said(MainStr), Said(FeatureBranch)}

BranchAnswersWide == {Said(b) : b \in Branches} \cup {Threw}

\* three committer dates whose wall-clock order is the reverse of their
\* order as instants
DateEarly == [wall |-> 11, off |-> 2]
DateMid == [wall |-> 10, off |-> 0]
DateLate == [wall |-> 9, off |-> -2]

Dates == {DateEarly, DateMid, DateLate}

HttpsRemote == <<"h","t","t","p","s",":","/","/","h","/","r",".","g","i","t">>
SshRemote == <<"g","i","t","@","h",":","o","/","r",".","g","i","t">>
LocalRemote == <<"/","s","r","v","/","r">>

\* no remote configured: the record carries an empty url
RemoteAnswers == {Threw}

RemoteAnswersWide == {Threw, Said(HttpsRemote), Said(SshRemote), Said(LocalRemote)}

NoCoverageMap == [present |-> FALSE, files |-> <<>>]

CoverageMaps ==
    { NoCoverageMap,
      [present |-> TRUE, files |-> <<>>],
      [present |-> TRUE, files |-> << [hasS |-> TRUE, s |-> <<1, 0, 3>>] >>],
      [present |-> TRUE, files |-> << [hasS |-> TRUE, s |-> <<1>>],
                                      [hasS |-> FALSE, s |-> <<>>] >>] }

NoManifest ==
    [manifest |-> FALSE, runner |-> "ok", report |-> "missing",
     numTotalTests |-> 0, numFailedTests |-> 0, coverageMap |-> NoCoverageMap]

TestAnswers == {NoManifest}

TestAnswersWide ==
    {NoManifest} \cup
    { [manifest |-> TRUE, runner |-> r, report |-> rep,
       numTotalTests |-> 0, numFailedTests |-> 0, coverageMap |-> NoCoverageMap] :
         r \in {"ok", "fails"}, rep \in {"missing", "unparseable"} } \cup
    { [manifest |-> TRUE, runner |-> r, report |-> "parsed",
       numTotalTests |-> n, numFailedTests |-> f, coverageMap |-> cm] :
         r \in {"ok", "fails"}, n \in {0, 10}, f \in {0, 2}, cm \in CoverageMaps }

FailAts == 0..3

\* An answer nobody reads is left at a fixed value: after a failed hash
\* resolution or a failed metadata read the run asks nothing more.
Unread(in) ==
    /\ in.date = DateMid
    /\ in.remote = Threw
    /\ in.branch = Threw
    /\ in.tests = NoManifest

Asked(in) ==
    \/ ~in.sha.throws /\ ShaRegexI(in.sha.out) /\ in.meta = "ok"
    \/ Unread(in)

Answers ==
    { in \in [sha : ShaAnswers, meta : {"ok", "fail"}, date : Dates,
              remote : RemoteAnswers, branch : BranchAnswers \cup {Threw},
              tests : TestAnswers, failAt : {0, 2}] :
        /\ Asked(in)
        /\ Unread(in) \/ in.branch \in BranchAnswers }

AnswersWide ==
    { in \in [sha : ShaAnswersWide, meta : {"ok", "fail"}, date : {DateMid},
              remote : RemoteAnswersWide, branch : BranchAnswersWide,
              tests : TestAnswersWide, failAt : FailAts] : Asked(in) }

-----------------------------------------------------------------------------
(* The history directory *)

Paths ==
    {DATA_FILE, MAIN_FILE}
    \cup {BranchFile2(b) : b \in Branches \ {<<>>}}
    \cup {BranchFile3(b) : b \in Branches \ {<<>>}}

AllAbsent == [p \in Paths |-> Absent]

\* a record an earlier run on main wrote
Recorded(sha, d) ==
    getCommitInfo(sha, [sha |-> Said(sha), meta |-> "ok", date |-> d,
                        remote |-> Threw, branch |-> Said(MainStr),
                        tests |-> NoManifest, failAt |-> 0])[1]

\* two such records in an order the sort did not produce (a hand-merged file)
Unsorted == <<Recorded(ShaOther, DateLate), Recorded(ShaOther, DateMid)>>

WithBoth(content) ==
    [AllAbsent EXCEPT ![DATA_FILE] = content, ![MAIN_FILE] = content]

CleanFiles == {AllAbsent, WithBoth(Array(<<>>))}

InitialFiles == CleanFiles \cup {WithBoth(Corrupt), WithBoth(Array(Unsorted))}

NoRun(fs) ==
    [variant |-> 0, exit |-> 0, entry |-> <<>>, before |-> fs, writes |-> <<>>,
     wfailed |-> FALSE, sha |-> Threw, tests |-> <<>>]

RaceIdle ==
    /\ rpc = [p \in {1, 2} |-> "idle"]
    /\ rloaded = [p \in {1, 2} |-> <<>>]
    /\ rentry = [p \in {1, 2} |-> <<>>]
    /\ rinit = Absent
    /\ serialized = TRUE

Init ==
    /\ files \in InitialFiles
    /\ count = 0
    /\ last = NoRun(files)
    /\ targeted = [p \in Paths |-> 0]
    /\ clean = (files \in CleanFiles)
    /\ okRuns = 0
    /\ RaceIdle

\* One invocation of a variant, whole: main's try block to its exit.
Ran(v, res, in) ==
    /\ files' = res.files
    /\ count' = count + 1
    /\ last' = [variant |-> v, exit |-> res.exit, entry |-> res.entry,
                before |-> files, writes |-> res.writes, wfailed |-> res.wfailed,
                sha |-> in.sha,
                tests |-> IF res.entry = <<>> THEN <<>> ELSE <<in.tests>>]
    /\ targeted' = [p \in Paths |->
                      IF res.exit = 0 /\ p \in Range(res.writes)
                      THEN targeted[p] + 1 ELSE targeted[p]]
    /\ okRuns' = IF res.exit = 0 THEN okRuns + 1 ELSE okRuns
    /\ UNCHANGED <<clean, raceVars>>

Invoke1(in) == Ran(1, Main1(files, in), in)
Invoke2(in) == Ran(2, Main2(files, in), in)
Invoke3(in) == Ran(3, Main3(files, in), in)

Step1 == count < MaxInvocations /\ \E in \in Answers : Invoke1(in)
Step2 == count < MaxInvocations /\ \E in \in Answers : Invoke2(in)
Step3 == count < MaxInvocations /\ \E in \in Answers : Invoke3(in)

Next == Step1 \/ Step2 \/ Step3

Spec == Init /\ [][Next]_vars

\* One invocation from each initial directory, over the wide answers.
Info1 == count = 0 /\ \E in \in AnswersWide : Invoke1(in)
Info2 == count = 0 /\ \E in \in AnswersWide : Invoke2(in)
Info3 == count = 0 /\ \E in \in AnswersWide : Invoke3(in)

NextInfo == Info1 \/ Info2 \/ Info3

SpecInfo == Init /\ [][NextInfo]_vars

-----------------------------------------------------------------------------
(* Two invocations racing on one history file                               *)
(*                                                                         *)
(* saveCommitData (variant 1) and appendEntry (variant 2) read the file,   *)
(* push, sort and rewrite it whole, with no lock.  Each of the two         *)
(* invocations below has passed its checks and holds its record; it reads  *)
(* DATA_FILE in one step and rewrites it in the next.  With serialized     *)
(* set, the second invocation starts only when the first has written (the  *)
(* hook fires once per local commit).                                      *)

Procs == {1, 2}

RaceFiles == {Array(<<>>), Corrupt, Array(<<Recorded(ShaOther, DateMid)>>)}

RaceSha(p) == IF p = 1 THEN Sha40 ELSE Rep("c", 40)

RaceEntry(p, d) ==
    getCommitInfo(RaceSha(p),
                  [sha |-> Said(RaceSha(p)), meta |-> "ok", date |-> d, remote |-> Threw,
                   branch |-> Said(MainStr), tests |-> NoManifest, failAt |-> 0])

InitRace ==
    /\ files \in {[AllAbsent EXCEPT ![DATA_FILE] = c] : c \in RaceFiles}
    /\ count = 0
    /\ last = NoRun(AllAbsent)
    /\ targeted = [p \in Paths |-> 0]
    /\ clean = FALSE
    /\ okRuns = 0
    /\ rinit = files[DATA_FILE]
    /\ rpc = [p \in Procs |-> "start"]
    /\ rloaded = [p \in Procs |-> <<>>]
    /\ \E d1 \in Dates, d2 \in Dates :
          rentry = [p \in Procs |-> IF p = 1 THEN RaceEntry(1, d1) ELSE RaceEntry(2, d2)]
    /\ serialized \in BOOLEAN

\* let commits = loadHistory(filePath)
RaceLoad(p) ==
    /\ rpc[p] = "start"
    /\ serialized => \A q \in Procs : rpc[q] # "loaded"
    /\ rloaded' = [rloaded EXCEPT ![p] = LoadHistory(files, DATA_FILE)]
    /\ rpc' = [rpc EXCEPT ![p] = "loaded"]
    /\ UNCHANGED <<files, count, last, targeted, clean, okRuns, rinit, rentry, serialized>>

\* commits.push(entry); saveHistory(filePath, commits); exit 0
RaceWrite(p) ==
    /\ rpc[p] = "loaded"
    /\ files' = [files EXCEPT ![DATA_FILE] = Array(Push(rloaded[p], rentry[p][1]))]
    /\ rpc' = [rpc EXCEPT ![p] = "done"]
    /\ UNCHANGED <<count, last, targeted, clean, okRuns, rinit, rloaded, rentry, serialized>>

NextRace == \E p \in Procs : RaceLoad(p) \/ RaceWrite(p)

SpecRace == InitRace /\ [][NextRace]_vars

-----------------------------------------------------------------------------
(* Properties *)

Ran1 == count > 0
Built == count > 0 /\ last.entry # <<>>
Entry == last.entry[1]

Persisted(e) == \E p \in Paths : \E i \in 1..Len(files[p].data) : files[p].data[i] = e

AllPersisted == UNION {Range(files[p].data) : p \in Paths}

\* C1: an invocation that exits 1 leaves every history file as it found it:
\* none created, none modified, no record added.
C1_FatalExitWritesNothing ==
    (Ran1 /\ last.exit = 1) => files = last.before

ConclusionRule(e) ==
    /\ (e.conclusion = "neutral") <=> (e.test_count = 0)
    /\ e.test_count # 0 => ((e.conclusion = "failure") <=> (e.failed_tests > 0))
    /\ (e.test_count # 0 /\ e.failed_tests = 0) => e.conclusion = "success"

\* C2: in every record built or persisted, conclusion is "neutral" exactly
\* when test_count is 0, else "failure" exactly when failed_tests > 0, else
\* "success".
C2_ConclusionFollowsCounts ==
    /\ Built => ConclusionRule(Entry)
    /\ \A e \in AllPersisted : ConclusionRule(e)

\* C3: from absent or empty files, while every invocation has exited 0, each
\* history file holds exactly one entry per invocation that wrote it, and the
\* latest invocation lengthened each file it wrote by exactly one.
C3_OneEntryPerInvocation ==
    (clean /\ okRuns = count) =>
        /\ \A p \in Paths : Len(files[p].data) = targeted[p]
        /\ \A p \in Range(last.writes) :
              Len(files[p].data) = Len(last.before[p].data) + 1

SortedByInstant(commits) ==
    \A i \in 1..(Len(commits) - 1) :
        commits[i].date.wall - commits[i].date.off
            <= commits[i + 1].date.wall - commits[i + 1].date.off

\* C4: every history file the latest invocation wrote holds an array in
\* non-decreasing order of the instants its commit dates name.
C4_SortedAfterAppend ==
    Ran1 => \A p \in Range(last.writes) :
                /\ files[p].st = "array"
                /\ SortedByInstant(files[p].data)

\* an invocation that exited 0 wrote a file that was out of order before it,
\* and its record did not land at the end
C4_Witness ==
    /\ Built /\ last.exit = 0
    /\ \E p \in Range(last.writes) :
          /\ last.before[p].st = "array"
          /\ ~SortedByInstant(last.before[p].data)
          /\ Len(files[p].data) >= 3
          /\ files[p].data[Len(files[p].data)] # Entry

\* C5: an invocation whose record carries an empty branch exits 1 and adds
\* the record to no history file.
C5_EmptyBranchAborts ==
    (Built /\ Entry.branch = <<>>) =>
        /\ last.exit = 1
        /\ \A p \in Paths : Len(files[p].data) = Len(last.before[p].data)

Underscored(b) ==
    [i \in 1..Len(b) |->
        IF b[i] \in Lower \cup Upper \cup Digits \cup {".", "_", "-"} THEN b[i] ELSE "_"]

ExpectedBranchPath(b) ==
    <<"script", "/", "commit-history", "-">> \o Underscored(b) \o <<".json">>

\* C6: a per-branch file written for branch b is
\* script/commit-history-<s>.json, s being b with every character outside
\* [A-Za-z0-9._-] replaced by "_"; the only other files written are the
\* global file of variants 1 and 3 and the main file of variant 2.
C6_BranchFileNameSanitized ==
    Built => \A p \in Range(last.writes) :
                \/ p = ExpectedBranchPath(Entry.branch)
                \/ last.variant \in {1, 3} /\ p = <<"script", "/", "commit-history", ".json">>
                \/ last.variant = 2 /\ p = <<"script", "/", "commit-history", "-",
                                              "m", "a", "i", "n", ".json">>

LowerHex(sha) ==
    /\ Len(sha) \in 7..40
    /\ \A i \in 1..Len(sha) : sha[i] \in Digits \cup {"a","b","c","d","e","f"}

\* C7: every persisted sha is 7 to 40 lower-case hexadecimal characters and
\* never "HEAD"; a resolved hash that is not exits 1 with no record built.
C7_ShaLowerHex ==
    /\ \A e \in AllPersisted : LowerHex(e.sha) /\ e.sha # <<"H","E","A","D">>
    /\ (Ran1 /\ ~last.sha.throws /\ ~LowerHex(last.sha.out)) =>
           (last.exit = 1 /\ last.entry = <<>>)

\* C8: every persisted record with a non-empty url has a url that ends with
\* the record's sha and does not end with "/commit/HEAD".
C8_UrlEndsWithSha ==
    \A e \in AllPersisted :
        e.url # <<>> =>
            /\ EndsWith(e.url, e.sha)
            /\ ~EndsWith(e.url, <<"/","c","o","m","m","i","t","/","H","E","A","D">>)

\* variant 3, which validates nothing, persisted a record that has a url
C8_Witness ==
    /\ Built /\ last.exit = 0 /\ last.variant = 3
    /\ Entry.url # <<>>
    /\ Persisted(Entry)

Degraded(t) == ~t.manifest \/ t.report \in {"missing", "unparseable"}

\* C9: with no manifest, or the report missing (the runner unavailable) or
\* unparseable, the record carries zero coverage and counts and "neutral",
\* and the invocation exits 0 with the record persisted unless a write threw
\* or variant 2 refused an empty branch.
C9_TestsBestEffort ==
    (Built /\ Degraded(last.tests[1])) =>
        /\ Entry.coverage = 0
        /\ Entry.test_count = 0
        /\ Entry.failed_tests = 0
        /\ Entry.conclusion = "neutral"
        /\ \/ last.wfailed
           \/ last.variant = 2 /\ Entry.branch = <<>>
           \/ last.exit = 0 /\ Persisted(Entry)

\* the runner failed and left an unparseable report; the record was persisted
C9_Witness ==
    /\ Built /\ last.exit = 0 /\ Persisted(Entry)
    /\ last.tests[1].manifest
    /\ last.tests[1].runner = "fails"
    /\ last.tests[1].report = "unparseable"

BothDone == \A p \in Procs : rpc[p] = "done"

InFile(p) == rentry[p][1] \in Range(files[DATA_FILE].data)

\* C10: when the two invocations are serialized and both have exited 0, the
\* file holds both their records, after whatever it held at the start.
C10_SerializedKeepsBoth ==
    (serialized /\ BothDone) =>
        /\ InFile(1) /\ InFile(2)
        /\ Len(files[DATA_FILE].data) = Len(rinit.data) + 2

\* both invocations read before either wrote, both exited 0, and the file
\* holds one of the two records only
C10_LostUpdate ==
    /\ ~serialized /\ BothDone
    /\ rloaded[1] = rloaded[2]
    /\ ~(InFile(1) /\ InFile(2))
    /\ InFile(1) \/ InFile(2)
    /\ Len(files[DATA_FILE].data) = Len(rinit.data) + 1

Occurrences(e, commits) == Cardinality({i \in 1..Len(commits) : commits[i] = e})

MainPath == <<"script", "/", "commit-history", "-", "m", "a", "i", "n", ".json">>

\* the file gained the record and kept every record it held
Gained(p) ==
    /\ files[p].st = "array"
    /\ Occurrences(Entry, files[p].data) > Occurrences(Entry, last.before[p].data)
    /\ \A e \in Range(last.before[p].data) \ {Entry} :
          Occurrences(e, files[p].data) = Occurrences(e, last.before[p].data)

\* C11: an invocation of variant 2 that exits 0 on branch b adds the record
\* to the per-branch file of b, adds it to commit-history-main.json exactly
\* when b is "main", and leaves every other history file as it was.
C11_BranchAndMainOnly ==
    (Built /\ last.variant = 2 /\ last.exit = 0) =>
        /\ Gained(ExpectedBranchPath(Entry.branch))
        /\ Gained(MainPath) <=> (Entry.branch = <<"m", "a", "i", "n">>)
        /\ \A p \in Paths \ {ExpectedBranchPath(Entry.branch)} :
              (p = MainPath /\ Entry.branch = <<"m", "a", "i", "n">>)
              \/ files[p] = last.before[p]

\* variant 2 exited 0 on a branch other than main while the main file and the
\* global file held records, and a record now sits in the per-branch file
C11_Witness ==
    /\ Built /\ last.variant = 2 /\ last.exit = 0
    /\ Entry.branch # <<"m", "a", "i", "n">>
    /\ Len(last.before[MainPath].data) > 0
    /\ Len(files[<<"script", "/", "commit-history", ".json">>].data) > 0
    /\ Entry \in Range(files[ExpectedBranchPath(Entry.branch)].data)

====
